---- MODULE Spec2Model ----
(***************************************************************************)
(* A model of the TrueType glyph loader of freetype-go                     *)
(* (src/freetype/truetype/glyph.go): the run-length flag decoder, the      *)
(* delta coordinate decoder, and GlyphBuf.Load with its recursion through  *)
(* load and loadCompound.                                                  *)
(*                                                                         *)
(* Go slices are 0-based and TLA+ sequences 1-based: element i of a Go     *)
(* slice s is s[i + 1] here.  A Go run-time panic (an index or a slice     *)
(* bound out of range) is the outcome "panic".                             *)
(***************************************************************************)
EXTENDS Integers, Sequences, FiniteSets, TLC

VARIABLES m, dec

vars == <<m, dec>>

---------------------------------------------------------------------------
(* Bytes, bits and fixed-width integers.                                   *)

\* Whether c has the single-bit mask set: the Go test c&mask != 0.
HasBit(c, mask) == (c \div mask) % 2 = 1

\* The Go conversion int16(x): x modulo 2^16 as a signed 16-bit value.
Int16(x) == ((x + 32768) % 65536) - 32768

\* The Go conversion int8(x) of a byte.
Int8(x) == ((x + 128) % 256) - 128

\* Whether the n bytes of d from offset off on exist (else Go panics).
InRange(d, off, n) == off >= 0 /\ off + n <= Len(d)

\* u16 reads a big-endian uint16 at offset off of d.
u16(d, off) == 256 * d[off + 1] + d[off + 2]

\* u32 reads a big-endian uint32 at offset off of d.
u32(d, off) == 16777216 * d[off + 1] + 65536 * d[off + 2] + 256 * d[off + 3] + d[off + 4]

\* The two bytes of a uint16 and the four of a uint32, big-endian.
U16Bytes(v) == <<(v \div 256) % 256, v % 256>>
U32Bytes(v) == <<(v \div 16777216) % 256, (v \div 65536) % 256, (v \div 256) % 256, v % 256>>

\* The bytes of an int16.
I16Bytes(v) == U16Bytes((v + 65536) % 65536)

---------------------------------------------------------------------------
(* The flags of a glyph's points (glyph.go, lines 37-55).                  *)

flagOnCurve == 1
flagXShortVector == 2
flagYShortVector == 4
flagRepeat == 8
flagPositiveXShortVector == 16
flagPositiveYShortVector == 32
flagThisXIsSame == flagPositiveXShortVector
flagThisYIsSame == flagPositiveYShortVector

\* The zero Point, as make([]Point, n) fills a new backing array.
ZeroPoint == [X |-> 0, Y |-> 0, Flags |-> 0]

---------------------------------------------------------------------------
(* decodeFlags (glyph.go, lines 59-75).  P is g.Point; the result is the   *)
(* new g.Point, the returned offset, and whether the call panicked.        *)

\* The inner loop, lines 68-71: count more points get the flag c.  With the
\* off-by-one of a decoder that counts the flag byte into the run.
RepeatLoopShort(P, c, i, count) ==
    LET n == IF count > 0 THEN count - 1 ELSE 0
        hi == IF i + n <= Len(P) THEN i + n ELSE Len(P)
    IN  [Point |-> [k \in 1..Len(P) |->
                      IF k > i /\ k <= hi THEN [P[k] EXCEPT !.Flags = c] ELSE P[k]],
         i |-> i + n,
         panic |-> i + n > Len(P)]

\* The inner loop, lines 68-71: for ; count > 0; count-- { g.Point[i].Flags = c; i++ }.
\* The write to g.Point[i] with i = len(g.Point) panics, after the writes before it.
RepeatLoop(P, c, i, count) ==
    LET hi == IF i + count <= Len(P) THEN i + count ELSE Len(P)
    IN  [Point |-> [k \in 1..Len(P) |->
                      IF k > i /\ k <= hi THEN [P[k] EXCEPT !.Flags = c] ELSE P[k]],
         i |-> i + count,
         panic |-> i + count > Len(P)]

RECURSIVE FlagsLoop(_, _, _, _)
\* The outer loop, lines 60-73, from point i and offset on.
FlagsLoop(P, d, offset, i) ==
    IF i >= Len(P) THEN [Point |-> P, offset |-> offset, panic |-> FALSE]
    ELSE IF ~InRange(d, offset, 1) THEN [Point |-> P, offset |-> offset, panic |-> TRUE]
    ELSE LET c == d[offset + 1]
             P1 == [P EXCEPT ![i + 1].Flags = c]
         IN  IF HasBit(c, flagRepeat)
             THEN IF ~InRange(d, offset + 1, 1)
                  THEN [Point |-> P1, offset |-> offset + 1, panic |-> TRUE]
                  ELSE LET r == RepeatLoop(P1, c, i + 1, d[offset + 2])
                       IN  IF r.panic
                           THEN [Point |-> r.Point, offset |-> offset + 2, panic |-> TRUE]
                           ELSE FlagsLoop(r.Point, d, offset + 2, r.i)
             ELSE FlagsLoop(P1, d, offset + 1, i + 1)

decodeFlags(P, d, offset, np0) == FlagsLoop(P, d, offset, np0)

---------------------------------------------------------------------------
(* decodeCoords (glyph.go, lines 78-114).                                  *)

\* One step of the X loop without the 16-bit accumulator: the sum kept wide.
XStepWide(f, d, offset, x) ==
    IF HasBit(f, flagXShortVector)
    THEN IF ~InRange(d, offset, 1) THEN [x |-> x, offset |-> offset, panic |-> TRUE]
         ELSE [x |-> IF HasBit(f, flagPositiveXShortVector)
                     THEN x + d[offset + 1] ELSE x - d[offset + 1],
               offset |-> offset + 1, panic |-> FALSE]
    ELSE IF ~HasBit(f, flagThisXIsSame)
    THEN IF ~InRange(d, offset, 2) THEN [x |-> x, offset |-> offset, panic |-> TRUE]
         ELSE [x |-> x + Int16(u16(d, offset)), offset |-> offset + 2, panic |-> FALSE]
    ELSE [x |-> x, offset |-> offset, panic |-> FALSE]

\* One step of the X loop, lines 81-93: the new accumulator and offset.
XStep(f, d, offset, x) ==
    IF HasBit(f, flagXShortVector)
    THEN IF ~InRange(d, offset, 1) THEN [x |-> x, offset |-> offset, panic |-> TRUE]
         ELSE [x |-> IF HasBit(f, flagPositiveXShortVector)
                     THEN Int16(x + d[offset + 1]) ELSE Int16(x - d[offset + 1]),
               offset |-> offset + 1, panic |-> FALSE]
    ELSE IF ~HasBit(f, flagThisXIsSame)
    THEN IF ~InRange(d, offset, 2) THEN [x |-> x, offset |-> offset, panic |-> TRUE]
         ELSE [x |-> Int16(x + Int16(u16(d, offset))), offset |-> offset + 2, panic |-> FALSE]
    ELSE [x |-> x, offset |-> offset, panic |-> FALSE]

\* One step of the Y loop, lines 98-110.
YStep(f, d, offset, y) ==
    IF HasBit(f, flagYShortVector)
    THEN IF ~InRange(d, offset, 1) THEN [y |-> y, offset |-> offset, panic |-> TRUE]
         ELSE [y |-> IF HasBit(f, flagPositiveYShortVector)
                     THEN Int16(y + d[offset + 1]) ELSE Int16(y - d[offset + 1]),
               offset |-> offset + 1, panic |-> FALSE]
    ELSE IF ~HasBit(f, flagThisYIsSame)
    THEN IF ~InRange(d, offset, 2) THEN [y |-> y, offset |-> offset, panic |-> TRUE]
         ELSE [y |-> Int16(y + Int16(u16(d, offset))), offset |-> offset + 2, panic |-> FALSE]
    ELSE [y |-> y, offset |-> offset, panic |-> FALSE]

RECURSIVE XLoop(_, _, _, _)
\* The first loop, lines 80-95, over the points a..b-1 in order, from the
\* loop state st: the points, the offset, the accumulator x, and whether an
\* index was out of range.  (The range is run as its two halves in turn.)
XLoop(d, a, b, st) ==
    IF st.panic \/ a >= b THEN st
    ELSE IF b = a + 1
    THEN LET s == XStep(st.Point[a + 1].Flags, d, st.offset, st.x)
         IN  IF s.panic THEN [st EXCEPT !.offset = s.offset, !.panic = TRUE]
             ELSE [Point |-> [st.Point EXCEPT ![a + 1].X = s.x], offset |-> s.offset,
                   x |-> s.x, panic |-> FALSE]
    ELSE XLoop(d, (a + b) \div 2, b, XLoop(d, a, (a + b) \div 2, st))

RECURSIVE YLoop(_, _, _, _)
\* The second loop, lines 97-112, over the points a..b-1 in order (the
\* accumulator y is the field x of the loop state).
YLoop(d, a, b, st) ==
    IF st.panic \/ a >= b THEN st
    ELSE IF b = a + 1
    THEN LET s == YStep(st.Point[a + 1].Flags, d, st.offset, st.x)
         IN  IF s.panic THEN [st EXCEPT !.offset = s.offset, !.panic = TRUE]
             ELSE [Point |-> [st.Point EXCEPT ![a + 1].Y = s.y], offset |-> s.offset,
                   x |-> s.y, panic |-> FALSE]
    ELSE YLoop(d, (a + b) \div 2, b, YLoop(d, a, (a + b) \div 2, st))

decodeCoords(P, d, offset, np0) ==
    LET rx == XLoop(d, np0, Len(P), [Point |-> P, offset |-> offset, x |-> 0, panic |-> FALSE])
        ry == YLoop(d, np0, Len(P), [rx EXCEPT !.x = 0])
    IN  [Point |-> ry.Point, offset |-> ry.offset, panic |-> ry.panic]

---------------------------------------------------------------------------
(* The Font a glyph is loaded from, as far as glyph.go reads it: the loca  *)
(* table with its offset format, the glyf table, and the scale function.   *)

\* Go's integer division, which truncates toward zero (b > 0).
Quo(a, b) == IF a >= 0 THEN a \div b ELSE -((-a) \div b)

\* f.scale(x): x divided by the font's units per em, rounded to the nearest integer.
FontScale(f, x) ==
    IF x >= 0 THEN Quo(x + f.fUnitsPerEm \div 2, f.fUnitsPerEm)
    ELSE Quo(x - f.fUnitsPerEm \div 2, f.fUnitsPerEm)

\* v &^ 63 on a two's complement integer: v with its low six bits cleared.
AndNot63(v) == (v \div 64) * 64

\* Lines 201-208: the offsets g0 and g1 of glyph i in f.glyf; a read past the
\* end of f.loca panics.
LocaRange(f, i) ==
    IF f.locaOffsetFormat = "short"
    THEN IF ~InRange(f.loca, 2 * i, 4) THEN [panic |-> TRUE, g0 |-> 0, g1 |-> 0]
         ELSE [panic |-> FALSE, g0 |-> 2 * u16(f.loca, 2 * i), g1 |-> 2 * u16(f.loca, 2 * i + 2)]
    ELSE IF ~InRange(f.loca, 4 * i, 8) THEN [panic |-> TRUE, g0 |-> 0, g1 |-> 0]
         ELSE [panic |-> FALSE, g0 |-> u32(f.loca, 4 * i), g1 |-> u32(f.loca, 4 * i + 4)]

\* Line 212: glyf := f.glyf[g0:g1], which panics unless g0 <= g1 <= cap(f.glyf).
\* The slice keeps the capacity of f.glyf past g1: a slice of glyf may run on
\* into the bytes of the glyphs after it.
GlyfSlice(f, r) ==
    IF r.g0 > r.g1 \/ r.g1 > Len(f.glyf) THEN [panic |-> TRUE, d |-> <<>>, cap |-> 0]
    ELSE [panic |-> FALSE, d |-> SubSeq(f.glyf, r.g0 + 1, r.g1), cap |-> Len(f.glyf) - r.g0]

---------------------------------------------------------------------------
(* The GlyphBuf (glyph.go, lines 19-33).  A slice is its elements and its  *)
(* capacity.  The elements a reslice s[:n] exposes between len(s) and n    *)
(* are whatever the backing array holds from earlier loads: they are the   *)
(* values StaleEnd and StalePoint here, which no decoder writes.           *)

ZeroBounds == [XMin |-> 0, YMin |-> 0, XMax |-> 0, YMax |-> 0]

StaleEnd == -1
StalePoint == [X |-> -1, Y |-> -1, Flags |-> -1]

\* s[:n] for n <= cap(s).
Reslice(s, n, stale) == [k \in 1..n |-> IF k <= Len(s) THEN s[k] ELSE stale]

\* make([]T, n) followed by copy(new, s).
MakeCopy(s, n, zero) == [k \in 1..n |-> IF k <= Len(s) THEN s[k] ELSE zero]

\* Lines 229-233: g.End = g.End[:ne] when the capacity suffices, else
\* g.End = make([]int, ne, ne*2), a new array of zeros.
GrowEnd(g, ne) ==
    IF ne <= g.capEnd THEN [g EXCEPT !.End = Reslice(g.End, ne, StaleEnd)]
    ELSE [g EXCEPT !.End = [k \in 1..ne |-> 0], !.capEnd = 2 * ne]

\* Lines 247-253: g.Point = g.Point[:np] when the capacity suffices, else a
\* new array of np points and capacity 2*np, with the old points copied in.
GrowPoint(g, np) ==
    IF np <= g.capPoint THEN [g EXCEPT !.Point = Reslice(g.Point, np, StalePoint)]
    ELSE [g EXCEPT !.Point = MakeCopy(g.Point, np, ZeroPoint), !.capPoint = 2 * np]

PointCap0 == 256
EndCap0 == 32

\* NewGlyphBuf (lines 296-301).
NewGlyphBuf ==
    [B |-> ZeroBounds, Point |-> <<>>, capPoint |-> PointCap0, End |-> <<>>, capEnd |-> EndCap0,
     Unhinted |-> <<>>, InFontUnits |-> <<>>, Twilight |-> <<>>]

\* Lines 122-127 of Load: the reset of the GlyphBuf, which keeps the capacities.
ResetBuf(g) ==
    [g EXCEPT !.B = ZeroBounds, !.Point = <<>>, !.Unhinted = <<>>, !.InFontUnits = <<>>,
              !.Twilight = <<>>, !.End = <<>>]

---------------------------------------------------------------------------
(* The Hinter, as far as Load sees it: init and run either fail or not.    *)
(* A hinter is a record: nil (no hinter), initErr (init returns an error), *)
(* failRun (the number of the run call that returns an error, 0 for none). *)

NoHinter == [nil |-> TRUE, initErr |-> FALSE, failRun |-> 0]

\* h.init(g, f, scale): its error.
HinterInit(h) == IF h.initErr THEN "hinter: init" ELSE "nil"

\* h.run(program), the runs-th call of this Load: its error.
HinterRun(h, runs) == IF h.failRun = runs THEN "hinter: run" ELSE "nil"

---------------------------------------------------------------------------
(* load for a simple glyph (glyph.go, lines 227-285).  Each stage is the   *)
(* GlyphBuf after it and whether it panicked; c is the call's arguments    *)
(* (dx, dy, roundDxDy), nc the glyph's numberOfContours (>= 0).            *)

\* Lines 214-218: the bounding box of the glyph header; a field whose bytes
\* are missing is not assigned (the read before it panicked).
ReadBounds(d, B) ==
    [XMin |-> IF InRange(d, 2, 2) THEN Int16(u16(d, 2)) ELSE B.XMin,
     YMin |-> IF InRange(d, 4, 2) THEN Int16(u16(d, 4)) ELSE B.YMin,
     XMax |-> IF InRange(d, 6, 2) THEN Int16(u16(d, 6)) ELSE B.XMax,
     YMax |-> IF InRange(d, 8, 2) THEN Int16(u16(d, 8)) ELSE B.YMax]

\* Lines 227-237: the contour ends.  The loop stops with a panic at the first
\* end whose two bytes are missing.
ReadEnds(g, d, nc) ==
    LET ne0 == Len(g.End)
        np0 == Len(g.Point)
        g1 == GrowEnd(g, nc + ne0)
        room == IF Len(d) >= 10 THEN (Len(d) - 10) \div 2 ELSE 0
        got == IF room < nc THEN room ELSE nc
    IN  [g |-> [g1 EXCEPT !.End = [k \in 1..(nc + ne0) |->
                    IF k > ne0 /\ k <= ne0 + got
                    THEN 1 + np0 + u16(d, 10 + 2 * (k - ne0 - 1))
                    ELSE g1.End[k]]],
         panic |-> got < nc,
         offset |-> 10 + 2 * nc]

\* Lines 240-243: the instructions; program := glyf[offset : offset+instrLen]
\* panics when it ends past the capacity of glyf.
ReadProgram(d, cap, offset) ==
    IF ~InRange(d, offset, 2) THEN [panic |-> TRUE, offset |-> offset]
    ELSE LET instrLen == u16(d, offset)
         IN  [panic |-> offset + 2 + instrLen > cap, offset |-> offset + 2 + instrLen]

\* Lines 246-255: the points, their flags and their coordinates.
ReadPoints(g, d, offset, np0) ==
    LET ne == Len(g.End)
    IN  IF ne = 0 THEN [g |-> g, panic |-> TRUE]
        ELSE LET g1 == GrowPoint(g, g.End[ne])
                 rf == decodeFlags(g1.Point, d, offset, np0)
                 rc == decodeCoords(rf.Point, d, rf.offset, np0)
             IN  IF rf.panic THEN [g |-> [g1 EXCEPT !.Point = rf.Point], panic |-> TRUE]
                 ELSE [g |-> [g1 EXCEPT !.Point = rc.Point], panic |-> rc.panic]

\* Lines 258-264: with a hinter, the points in font units, moved by (dx, dy).
\* g.Point[np0:np] panics when np0 > np, g.InFontUnits[i] when i is past its end.
NoteInFontUnits(g, h, c, np0) ==
    LET np == Len(g.Point)
    IN  IF h.nil THEN [g |-> g, panic |-> FALSE]
        ELSE IF np0 > np THEN [g |-> g, panic |-> TRUE]
        ELSE LET u == g.InFontUnits \o SubSeq(g.Point, np0 + 1, np)
                 hi == IF np <= Len(u) THEN np ELSE Len(u)
             IN  [g |-> [g EXCEPT !.InFontUnits = [k \in 1..Len(u) |->
                            IF k > np0 /\ k <= hi
                            THEN [u[k] EXCEPT !.X = @ + c.dx, !.Y = @ + c.dy]
                            ELSE u[k]]],
                  panic |-> np > Len(u)]

\* Lines 265-277: the points scaled, with the offset rounded to the grid first
\* when roundDxDy.
ScalePoints(g, f, scale, c, np0) ==
    LET dx == AndNot63(FontScale(f, scale * c.dx) + 32)
        dy == AndNot63(FontScale(f, scale * c.dy) + 32)
    IN  [g EXCEPT !.Point = [k \in 1..Len(g.Point) |->
            IF k <= np0 THEN g.Point[k]
            ELSE IF c.roundDxDy
            THEN [g.Point[k] EXCEPT !.X = dx + FontScale(f, scale * @),
                                    !.Y = dy + FontScale(f, scale * @)]
            ELSE [g.Point[k] EXCEPT !.X = FontScale(f, scale * (@ + c.dx)),
                                    !.Y = FontScale(f, scale * (@ + c.dy))]]]

\* Lines 278-283: with a hinter, the scaled points noted and the program run.
NoteUnhinted(g, h, np0) ==
    IF h.nil THEN g
    ELSE [g EXCEPT !.Unhinted = @ \o SubSeq(g.Point, np0 + 1, Len(g.Point))]

\* Lines 227-285.  The result: the GlyphBuf, panic, the error returned, and the
\* number of h.run calls made so far.
loadSimple(g, f, scale, h, runs, d, cap, nc, c) ==
    LET np0 == Len(g.Point)
        e == ReadEnds(g, d, nc)
        p == ReadProgram(d, cap, e.offset)
        r == ReadPoints(e.g, d, p.offset, np0)
        u == NoteInFontUnits(r.g, h, c, np0)
        s == NoteUnhinted(ScalePoints(u.g, f, scale, c, np0), h, np0)
    IN  IF e.panic THEN [g |-> e.g, panic |-> TRUE, err |-> "nil", runs |-> runs]
        ELSE IF p.panic THEN [g |-> e.g, panic |-> TRUE, err |-> "nil", runs |-> runs]
        ELSE IF r.panic THEN [g |-> r.g, panic |-> TRUE, err |-> "nil", runs |-> runs]
        ELSE IF u.panic THEN [g |-> u.g, panic |-> TRUE, err |-> "nil", runs |-> runs]
        ELSE IF h.nil THEN [g |-> s, panic |-> FALSE, err |-> "nil", runs |-> runs]
        ELSE [g |-> s, panic |-> FALSE, err |-> HinterRun(h, runs + 1), runs |-> runs + 1]

---------------------------------------------------------------------------
(* The flags of a component record (glyph.go, lines 149-161).            *)

flagArg1And2AreWords == 1
flagArgsAreXYValues == 2
flagRoundXYToGrid == 4
flagWeHaveAScale == 8
flagUnused == 16
flagMoreComponents == 32
flagWeHaveAnXAndYScale == 64
flagWeHaveATwoByTwo == 128
flagWeHaveInstructions == 256
flagUseMyMetrics == 512
flagOverlapCompound == 1024

---------------------------------------------------------------------------
(* The fonts and glyphs Load is called with: glyf data in the TrueType     *)
(* encoding that load and loadCompound read, well-formed and malformed.    *)

\* The box of the glyph with index k: every glyph has its own.
BoxOf(k) == [XMin |-> k, YMin |-> -k, XMax |-> 100 + k, YMax |-> 200 + k]

\* The 10 header bytes: numberOfContours and the bounding box.
Header(nc, box) ==
    I16Bytes(nc) \o I16Bytes(box.XMin) \o I16Bytes(box.YMin) \o I16Bytes(box.XMax)
      \o I16Bytes(box.YMax)

RECURSIVE Concat(_)
\* The concatenation of a sequence of byte sequences.
Concat(ss) ==
    IF Len(ss) = 0 THEN <<>>
    ELSE IF Len(ss) = 1 THEN ss[1]
    ELSE Concat(SubSeq(ss, 1, Len(ss) \div 2)) \o Concat(SubSeq(ss, Len(ss) \div 2 + 1, Len(ss)))

\* A simple glyph: the ends of its contours, its instructions, its flag
\* stream and its coordinate stream.
SimpleGlyph(box, ends, instr, flags, coords) ==
    Header(Len(ends), box) \o Concat([k \in 1..Len(ends) |-> U16Bytes(ends[k])])
      \o U16Bytes(Len(instr)) \o instr \o flags \o coords

\* One component record of a compound glyph.
Record(flags, component, arg1, arg2) ==
    U16Bytes(flags) \o U16Bytes(component)
      \o (IF HasBit(flags, flagArg1And2AreWords) THEN I16Bytes(arg1) \o I16Bytes(arg2)
          ELSE <<(arg1 + 256) % 256, (arg2 + 256) % 256>>)

\* A compound glyph of the given component records.
CompoundGlyph(box, records) == Header(-1, box) \o Concat(records)

\* n contours of one point each, all at the origin: one repeated flag.
ManyContours(box, n) ==
    SimpleGlyph(box, [k \in 1..n |-> k - 1], <<>>, <<57, n - 1>>, <<>>)

XY == flagArgsAreXYValues
MoreComps == flagMoreComponents
UseMy == flagUseMyMetrics

\* The flags and the components of the generated two-component glyphs.
PairFlags == <<XY, XY + UseMy>>
PairComps == <<0, 1, 2, 3>>
NumPairs == Len(PairFlags) * Len(PairComps) * Len(PairFlags) * Len(PairComps)

\* The k-th generated glyph: two components, every choice of flags and glyph.
PairGlyph(box, k) ==
    LET nf == Len(PairFlags)
        ncp == Len(PairComps)
    IN  CompoundGlyph(box,
          <<Record(PairFlags[1 + (k % nf)] + MoreComps, PairComps[1 + ((k \div nf) % ncp)], 0, 0),
            Record(PairFlags[1 + ((k \div (nf * ncp)) % nf)],
                   PairComps[1 + ((k \div (nf * ncp * nf)) % ncp)], 0, 0)>>)

\* The hand-made glyphs, by index.
BaseGlyph(k) ==
    CASE k = 0 -> <<>>
      \* two points (3, 5) and (7, 11) in one contour
      [] k = 1 -> SimpleGlyph(BoxOf(k), <<1>>, <<>>, <<55, 55>>, <<3, 4, 5, 6>>)
      \* three points in two contours, a repeated flag, one instruction byte
      [] k = 2 -> SimpleGlyph(BoxOf(k), <<0, 2>>, <<75>>, <<63, 2>>, <<1, 1, 1, 2, 2, 2>>)
      \* a reserved negative numberOfContours
      [] k = 3 -> Header(-2, BoxOf(k))
      \* no contours
      [] k = 4 -> SimpleGlyph(BoxOf(k), <<>>, <<>>, <<>>, <<>>)
      \* a repeat count that runs past the glyph's two points
      [] k = 5 -> SimpleGlyph(BoxOf(k), <<1>>, <<>>, <<63, 5>>, <<3, 4, 5, 6>>)
      \* an instruction length of 40 with no instructions: the program runs on
      \* into the next glyphs, and the flags are looked for past this glyph's end
      [] k = 6 -> Header(1, BoxOf(k)) \o U16Bytes(0) \o U16Bytes(40)
      \* a coordinate stream one byte short
      [] k = 7 -> SimpleGlyph(BoxOf(k), <<1>>, <<>>, <<55, 55>>, <<3, 4, 5>>)
      [] k = 8 -> ManyContours(BoxOf(k), 20)
      [] k = 9 -> ManyContours(BoxOf(k), 33)
      \* 257 points in one contour
      [] k = 10 -> SimpleGlyph(BoxOf(k), <<256>>, <<>>, <<57, 255, 49>>, <<>>)
      \* a glyph whose component is itself
      [] k = 11 -> CompoundGlyph(BoxOf(k), <<Record(XY, 11, 0, 0)>>)
      \* a chain of compound glyphs: 12 -> 13 -> 14 -> 1, and 15 -> 12
      [] k = 12 -> CompoundGlyph(BoxOf(k), <<Record(XY, 13, 1, 0)>>)
      [] k = 13 -> CompoundGlyph(BoxOf(k), <<Record(XY + UseMy, 14, 0, 1)>>)
      [] k = 14 -> CompoundGlyph(BoxOf(k), <<Record(XY, 1, -2, 0)>>)
      [] k = 15 -> CompoundGlyph(BoxOf(k), <<Record(XY + UseMy, 12, 0, 0)>>)
      \* 40 contours and 259 points out of well-formed components
      [] k = 16 -> CompoundGlyph(BoxOf(k), <<Record(XY + MoreComps, 8, 0, 0), Record(XY, 8, 0, 0)>>)
      [] k = 17 -> CompoundGlyph(BoxOf(k), <<Record(XY + MoreComps, 1, 0, 0), Record(XY, 10, 0, 0)>>)
      \* a component record cut short
      [] k = 18 -> Header(-1, BoxOf(k)) \o <<0, 2, 0>>
      \* word and byte offsets, rounded to the grid
      [] k = 19 -> CompoundGlyph(BoxOf(k),
                     <<Record(XY + flagArg1And2AreWords + flagRoundXYToGrid + MoreComps, 1, 300, -50),
                       Record(XY + flagRoundXYToGrid + UseMy, 2, -3, 5)>>)
      \* the unsupported component records
      [] k = 20 -> CompoundGlyph(BoxOf(k), <<Record(0, 1, 0, 0)>>)
      [] k = 21 -> CompoundGlyph(BoxOf(k), <<Record(XY + flagWeHaveAScale, 1, 0, 0)>>)
      [] k = 22 -> CompoundGlyph(BoxOf(k), <<Record(XY + flagWeHaveAnXAndYScale, 1, 0, 0)>>)
      [] k = 23 -> CompoundGlyph(BoxOf(k), <<Record(XY + flagWeHaveATwoByTwo, 1, 0, 0)>>)
      \* components that fail or panic
      [] k = 24 -> CompoundGlyph(BoxOf(k), <<Record(XY + MoreComps, 3, 0, 0), Record(XY, 2, 0, 0)>>)
      [] k = 25 -> CompoundGlyph(BoxOf(k), <<Record(XY + MoreComps, 2, 0, 0), Record(XY, 5, 0, 0)>>)

\* The indices of the hand-made glyphs.
BaseIndices == 0..25
NumBase == Cardinality(BaseIndices)
NumGlyphs == NumBase + NumPairs

\* The glyphs of the fonts, by index.
Glyph(k) == IF k < NumBase THEN BaseGlyph(k) ELSE PairGlyph(BoxOf(k), k - NumBase)

\* A glyph padded to an even length, as the short loca format needs.
Padded(d) == IF Len(d) % 2 = 0 THEN d ELSE d \o <<0>>

\* The offsets of the glyphs gs in their concatenation, with the end of the
\* last one.
Offsets(gs) == [k \in 1..(Len(gs) + 1) |-> Len(Concat(SubSeq(gs, 1, k - 1)))]

\* A font of the glyphs gs with 32-bit loca entries.
LongFont(gs, upm) ==
    LET offs == Offsets(gs)
    IN  [fUnitsPerEm |-> upm, locaOffsetFormat |-> "long",
         loca |-> Concat([k \in 1..Len(offs) |-> U32Bytes(offs[k])]), glyf |-> Concat(gs)]

\* A font of the glyphs gs with 16-bit loca entries, which hold offset / 2.
ShortFont(gs, upm) ==
    LET ps == [k \in 1..Len(gs) |-> Padded(gs[k])]
        offs == Offsets(ps)
    IN  [fUnitsPerEm |-> upm, locaOffsetFormat |-> "short",
         loca |-> Concat([k \in 1..Len(offs) |-> U16Bytes(offs[k] \div 2)]), glyf |-> Concat(ps)]

NumShortGlyphs == 3

\* The fonts: every glyph, in the long format, and the first glyphs in the
\* short format (for which the other indices are past the end of loca).
Fonts ==
    <<LongFont([k \in 1..NumGlyphs |-> Glyph(k - 1)], 2048),
      ShortFont([k \in 1..NumShortGlyphs |-> Glyph(k - 1)], 1000)>>

\* The number of glyphs of a font, by the length of its loca.
FontGlyphs(f) == Len(f.loca) \div (IF f.locaOffsetFormat = "short" THEN 2 ELSE 4) - 1

\* The scale Load is called with: 12 pt, in 26.6 fixed point units per em.
Scales == {768}

MaxFailRun == 2

---------------------------------------------------------------------------
(* Load, load and loadCompound (glyph.go, lines 120-286) as a machine.     *)
(*                                                                         *)
(*   g        the GlyphBuf                                                 *)
(*   font, scale, i, h   the arguments of the Load in progress (font is    *)
(*            the index of the Font in Fonts)                              *)
(*   pc       "idle"      no Load was called yet                           *)
(*            "load"      load was called with the arguments in call       *)
(*            "compound"  loadCompound is at the top of its loop, line 163 *)
(*            "ret"       a call of load has returned err to its caller    *)
(*            "more"      loadCompound is at line 186                      *)
(*            "done"      Load has returned or panicked: outcome           *)
(*   stack    the frames of the loadCompound calls in progress, innermost  *)
(*            last.  (load itself has no frame: it either returns or ends  *)
(*            with return g.loadCompound(...).)                            *)
(*   runs     the number of h.run calls of this Load                       *)
(*   errs     the errors that the calls of h.init, load and loadCompound   *)
(*            made during this Load have returned so far                   *)

MaxRecursion == 4

ErrRecursion == "unsupported: excessive compound glyph recursion"
ErrNegative == "unsupported: negative number of contours"
ErrTransformVector == "unsupported: compound glyph transform vector"
ErrScale == "unsupported: compound glyph scale/transform"

NoCall == [i |-> 0, dx |-> 0, dy |-> 0, roundDxDy |-> FALSE, recursion |-> 0]

Idle ==
    [g |-> NewGlyphBuf, font |-> 1, scale |-> 0, i |-> 0, h |-> NoHinter, pc |-> "idle",
     call |-> NoCall, stack |-> <<>>, err |-> "nil", outcome |-> "none", runs |-> 0,
     errs |-> {}]

\* A run-time panic: it unwinds every frame and Load does not return.
Panic(mm, g) ==
    [mm EXCEPT !.g = g, !.pc = "done", !.outcome = "panic", !.stack = <<>>, !.call = NoCall]

\* load returns err to its caller.
Return(mm, g, err) ==
    [mm EXCEPT !.g = g, !.pc = "ret", !.err = err, !.call = NoCall,
               !.errs = IF err = "nil" THEN @ ELSE @ \cup {err}]

\* The bytes of the glyph whose components the frame fr composes.
FrameGlyf(mm, fr) == GlyfSlice(Fonts[mm.font], LocaRange(Fonts[mm.font], fr.glyph)).d

\* Lines 120-133: Load resets the GlyphBuf, initializes the hinter and calls
\* load(f, scale, i, h, 0, 0, false, 0).
LoadStart(mm, font, scale, i, h) ==
    LET m1 == [mm EXCEPT !.g = ResetBuf(@), !.font = font, !.scale = scale, !.i = i, !.h = h,
                         !.stack = <<>>, !.err = "nil", !.outcome = "none", !.runs = 0,
                         !.errs = {}, !.call = NoCall]
    IN  IF ~h.nil /\ HinterInit(h) # "nil"
        THEN [m1 EXCEPT !.pc = "done", !.outcome = HinterInit(h), !.errs = {HinterInit(h)}]
        ELSE [m1 EXCEPT !.pc = "load", !.call = [NoCall EXCEPT !.i = i]]

\* Lines 194-286: one call of load, up to its return, its panic, or its call of
\* loadCompound (line 221).
loadStep(mm) ==
    LET c == mm.call
        f == Fonts[mm.font]
        r == LocaRange(f, c.i)
        gl == GlyfSlice(f, r)
        nc == Int16(u16(gl.d, 0))
        g1 == [mm.g EXCEPT !.B = ReadBounds(gl.d, @)]
        s == loadSimple(g1, f, mm.scale, mm.h, mm.runs, gl.d, gl.cap, nc, c)
    IN  IF c.recursion >= MaxRecursion THEN Return(mm, mm.g, ErrRecursion)
        ELSE IF r.panic THEN Panic(mm, mm.g)
        ELSE IF r.g0 = r.g1 THEN Return(mm, mm.g, "nil")
        ELSE IF gl.panic \/ ~InRange(gl.d, 0, 2) THEN Panic(mm, mm.g)
        ELSE IF ~InRange(gl.d, 0, 10) THEN Panic(mm, g1)
        ELSE IF nc = -1
        THEN [mm EXCEPT !.g = g1, !.pc = "compound", !.call = NoCall,
                        !.stack = Append(@, [glyph |-> c.i, offset |-> 10, dx |-> c.dx,
                                             dy |-> c.dy, recursion |-> c.recursion,
                                             flags |-> 0, component |-> 0, b0 |-> ZeroBounds])]
        ELSE IF nc < 0 THEN Return(mm, g1, ErrNegative)
        ELSE IF s.panic THEN Panic(mm, s.g)
        ELSE [Return(mm, s.g, s.err) EXCEPT !.runs = s.runs]

\* Lines 163-182: loadCompound reads one component record and either returns
\* an error or notes the bounds and calls load for the component.
compoundStep(mm) ==
    LET n == Len(mm.stack)
        fr == mm.stack[n]
        d == FrameGlyf(mm, fr)
        words == HasBit(u16(d, fr.offset), flagArg1And2AreWords)
        flags == u16(d, fr.offset)
        arg1 == IF words THEN Int16(u16(d, fr.offset + 4)) ELSE Int8(d[fr.offset + 5])
        arg2 == IF words THEN Int16(u16(d, fr.offset + 6)) ELSE Int8(d[fr.offset + 6])
        popped == [mm EXCEPT !.stack = SubSeq(@, 1, n - 1)]
    IN  IF ~InRange(d, fr.offset, 4) THEN Panic(mm, mm.g)
        ELSE IF ~InRange(d, fr.offset, IF words THEN 8 ELSE 6) THEN Panic(mm, mm.g)
        ELSE IF ~HasBit(flags, flagArgsAreXYValues) THEN Return(popped, mm.g, ErrTransformVector)
        ELSE IF HasBit(flags, flagWeHaveAScale) \/ HasBit(flags, flagWeHaveAnXAndYScale)
                \/ HasBit(flags, flagWeHaveATwoByTwo)
        THEN Return(popped, mm.g, ErrScale)
        ELSE [mm EXCEPT !.pc = "load",
                        !.stack[n] = [fr EXCEPT !.offset = @ + (IF words THEN 8 ELSE 6),
                                                !.flags = flags,
                                                !.component = u16(d, fr.offset + 2),
                                                !.b0 = mm.g.B],
                        !.call = [i |-> u16(d, fr.offset + 2),
                                  dx |-> fr.dx + arg1, dy |-> fr.dy + arg2,
                                  roundDxDy |-> HasBit(flags, flagRoundXYToGrid),
                                  recursion |-> fr.recursion + 1]]

\* Lines 182-185 with the bounds of before the component put back whatever its flags.
afterComponentAlwaysRestore(mm) ==
    [mm EXCEPT !.g.B = mm.stack[Len(mm.stack)].b0, !.pc = "more", !.err = "nil"]

\* Lines 182-185 with the bounds of the component kept whatever its flags.
afterComponentNeverRestore(mm) == [mm EXCEPT !.pc = "more", !.err = "nil"]

\* Lines 182-185: the component's load has returned.  Its error is not looked
\* at; without flagUseMyMetrics the bounds of before the component are put back.
afterComponent(mm) ==
    LET fr == mm.stack[Len(mm.stack)]
    IN  [mm EXCEPT !.g.B = IF HasBit(fr.flags, flagUseMyMetrics) THEN @ ELSE fr.b0,
                   !.pc = "more", !.err = "nil"]

\* Lines 186-190: the loop goes on with the next record, or loadCompound
\* returns nil, and with it the load that called it.
moreStep(mm) ==
    LET n == Len(mm.stack)
    IN  IF HasBit(mm.stack[n].flags, flagMoreComponents) THEN [mm EXCEPT !.pc = "compound"]
        ELSE Return([mm EXCEPT !.stack = SubSeq(@, 1, n - 1)], mm.g, "nil")

\* Lines 133-141: the outermost load has returned to Load, which returns its
\* error or scales the bounds and returns nil.
loadReturn(mm) ==
    LET f == Fonts[mm.font]
        B == mm.g.B
    IN  IF mm.err # "nil" THEN [mm EXCEPT !.pc = "done", !.outcome = mm.err]
        ELSE [mm EXCEPT !.pc = "done", !.outcome = "nil",
                        !.g.B = [XMin |-> FontScale(f, mm.scale * B.XMin),
                                 YMin |-> FontScale(f, mm.scale * B.YMin),
                                 XMax |-> FontScale(f, mm.scale * B.XMax),
                                 YMax |-> FontScale(f, mm.scale * B.YMax)]]

\* The next step of a Load in progress.
Step(mm) ==
    CASE mm.pc = "load" -> loadStep(mm)
      [] mm.pc = "compound" -> compoundStep(mm)
      [] mm.pc = "ret" /\ mm.stack # <<>> -> afterComponent(mm)
      [] mm.pc = "more" -> moreStep(mm)
      [] mm.pc = "ret" /\ mm.stack = <<>> -> loadReturn(mm)

RECURSIVE Run(_)
\* A Load in progress run to its end.
Run(mm) == IF mm.pc = "done" THEN mm ELSE Run(Step(mm))

\* The hinters a Load is called with.
Hinters ==
    {NoHinter, [nil |-> FALSE, initErr |-> TRUE, failRun |-> 0]}
      \cup {[nil |-> FALSE, initErr |-> FALSE, failRun |-> n] : n \in 0..MaxFailRun}

\* g.Load(f, scale, i, h) is called, on a new GlyphBuf or on one that has
\* served earlier Loads (also one whose Load panicked and was recovered), for
\* a glyph of the font or for the first index past its last glyph.
Load ==
    /\ m.pc \in {"idle", "done"}
    /\ \E font \in 1..Len(Fonts), scale \in Scales, h \in Hinters :
         \E i \in 0..FontGlyphs(Fonts[font]) :
           m' = LoadStart(m, font, scale, i, h)
    /\ UNCHANGED dec

LoadBody == m.pc = "load" /\ m' = loadStep(m) /\ UNCHANGED dec

Compound == m.pc = "compound" /\ m' = compoundStep(m) /\ UNCHANGED dec

AfterComponent == m.pc = "ret" /\ m.stack # <<>> /\ m' = afterComponent(m) /\ UNCHANGED dec

More == m.pc = "more" /\ m' = moreStep(m) /\ UNCHANGED dec

LoadReturn == m.pc = "ret" /\ m.stack = <<>> /\ m' = loadReturn(m) /\ UNCHANGED dec

---------------------------------------------------------------------------
(* The decoders alone.  A decoder run starts from a point array of np      *)
(* points of which the first np0 belong to glyphs decoded before, a byte   *)
(* stream d and a start offset, all drawn from the bounded sets below; the *)
(* one step applies the decoder and records what it returned.              *)

MaxFlagBytes == 4
MaxFlagPoints == 4
MaxCoordBytes == 4
MaxCoordPoints == 2

\* All sequences over S of length at most n.
SeqsUpTo(S, n) == UNION {[1..k -> S] : k \in 0..n}

\* Flag and count bytes: with and without the repeat bit; as a count, 8 and 9
\* overrun every range of the bound.
FlagBytes == {0, 1, 2, 8, 9}

\* Stream bytes of the coordinate decoder: 128 0 is -32768 and 255 255 is -1.
CoordBytes == {0, 128, 255}

\* Point flags of the coordinate decoder: full deltas (0), X full with Y same
\* (32), short positive (54), short negative (6), both same (48).
CoordFlags == {0, 32, 54, 6, 48}

\* A point of an earlier glyph: no decoder of a later glyph may touch it.
EarlierPoint == [X |-> 7, Y |-> -7, Flags |-> 65]

\* The point array before decoding: np0 earlier points, then n points to fill.
InputPoints(np0, fl) ==
    [k \in 1..(np0 + Len(fl)) |->
        IF k <= np0 THEN EarlierPoint ELSE [X |-> 99, Y |-> 99, Flags |-> fl[k - np0]]]

DecIdle == [op |-> "none"]

InitFlags ==
    /\ m = Idle
    /\ \E d \in SeqsUpTo(FlagBytes, MaxFlagBytes), np \in 0..MaxFlagPoints, offset \in 0..1 :
         \E np0 \in 0..np :
           dec = [op |-> "flags", state |-> "call", d |-> d, offset |-> offset, np0 |-> np0,
                  P |-> InputPoints(np0, [k \in 1..(np - np0) |-> 255])]

InitCoords ==
    /\ m = Idle
    /\ \E d \in SeqsUpTo(CoordBytes, MaxCoordBytes), np0 \in 0..1, offset \in 0..1 :
         \E fl \in SeqsUpTo(CoordFlags, MaxCoordPoints) :
           dec = [op |-> "coords", state |-> "call", d |-> d, offset |-> offset, np0 |-> np0,
                  P |-> InputPoints(np0, fl)]

\* The call g.decodeFlags(d, offset, np0) and its return or panic.
DecodeFlagsCall ==
    /\ dec.op = "flags" /\ dec.state = "call"
    /\ LET r == decodeFlags(dec.P, dec.d, dec.offset, dec.np0)
       IN  dec' = [dec EXCEPT !.state = IF r.panic THEN "panic" ELSE "return"] @@ [out |-> r]
    /\ UNCHANGED m

\* The call g.decodeCoords(d, offset, np0) and its return or panic.
DecodeCoordsCall ==
    /\ dec.op = "coords" /\ dec.state = "call"
    /\ LET r == decodeCoords(dec.P, dec.d, dec.offset, dec.np0)
       IN  dec' = [dec EXCEPT !.state = IF r.panic THEN "panic" ELSE "return"] @@ [out |-> r]
    /\ UNCHANGED m

SpecFlags == InitFlags /\ [][DecodeFlagsCall]_vars

SpecCoords == InitCoords /\ [][DecodeCoordsCall]_vars

Init == m = Idle /\ dec = DecIdle

Next == Load \/ LoadBody \/ Compound \/ AfterComponent \/ More \/ LoadReturn

Spec == Init /\ [][Next]_vars

---------------------------------------------------------------------------
(* The flag decoder: claims C4 and C5, under SpecFlags.                    *)

\* The flags of the points np0.. of a point array.
FlagsFrom(P, np0) == [k \in 1..(Len(P) - np0) |-> P[np0 + k].Flags]

\* Whether P and Q agree on their first n points.
SamePrefix(P, Q, n) == Len(P) >= n /\ Len(Q) >= n /\ \A k \in 1..n : P[k] = Q[k]

RECURSIVE RunOverruns(_, _, _)
\* Whether the flag stream of d from off on, read for n points, holds a repeat
\* count that carries its run past the last of the n points.
RunOverruns(d, off, n) ==
    IF n <= 0 \/ ~InRange(d, off, 1) THEN FALSE
    ELSE IF ~HasBit(d[off + 1], flagRepeat) THEN RunOverruns(d, off + 1, n - 1)
    ELSE IF ~InRange(d, off, 2) THEN FALSE
    ELSE IF 1 + d[off + 2] > n THEN TRUE
    ELSE RunOverruns(d, off + 2, n - 1 - d[off + 2])

\* C4: the flag decoder never writes a flag outside [np0, np), and a repeat
\* count that would carry a run past the last point ends the decoding as a
\* malformed-data error: not as a truncated run, not as an out-of-range access.
C4_OverrunIsMalformedData ==
    dec.op = "flags" /\ dec.state # "call" =>
        /\ Len(dec.out.Point) = Len(dec.P)
        /\ SamePrefix(dec.P, dec.out.Point, dec.np0)
        /\ RunOverruns(dec.d, dec.offset, Len(dec.P) - dec.np0) => dec.state = "malformed-data"

RECURSIVE Expand(_, _, _)
\* The run-length expansion of the flag stream of d from off on, for n
\* points: a flag byte with the repeat bit and the count k after it stands for
\* k + 1 points, any other flag byte for one point and no count byte.  The
\* result is the flags, one per point, and the offset after the last byte
\* read (-1 when the stream ends early).
Expand(d, off, n) ==
    IF n <= 0 THEN [flags |-> <<>>, offset |-> off]
    ELSE IF ~InRange(d, off, 1) THEN [flags |-> <<>>, offset |-> -1]
    ELSE IF ~HasBit(d[off + 1], flagRepeat)
    THEN LET rest == Expand(d, off + 1, n - 1)
         IN  [flags |-> <<d[off + 1]>> \o rest.flags, offset |-> rest.offset]
    ELSE IF ~InRange(d, off, 2) THEN [flags |-> <<>>, offset |-> -1]
    ELSE LET rest == Expand(d, off + 2, n - (d[off + 2] + 1))
         IN  [flags |-> [k \in 1..(d[off + 2] + 1) |-> d[off + 1]] \o rest.flags,
              offset |-> rest.offset]

\* C5: when decodeFlags returns, the points of [np0, np) hold the run-length
\* expansion of the stream (k + 1 points for a repeated flag with count k, one
\* point and no count byte for any other flag), the offset returned is the one
\* after the last flag or count byte read, and nothing else of the points
\* has changed.
C5_RunLengthExpansion ==
    dec.op = "flags" /\ dec.state = "return" =>
        LET e == Expand(dec.d, dec.offset, Len(dec.P) - dec.np0)
        IN  /\ Len(dec.out.Point) = Len(dec.P)
            /\ FlagsFrom(dec.out.Point, dec.np0) = e.flags
            /\ dec.out.offset = e.offset
            /\ SamePrefix(dec.P, dec.out.Point, dec.np0)
            /\ \A k \in 1..Len(dec.P) :
                 dec.out.Point[k].X = dec.P[k].X /\ dec.out.Point[k].Y = dec.P[k].Y

\* A repeated flag with count 1 and a single flag after it have filled the
\* three points after one earlier point, from three bytes.
C5_Witness ==
    /\ dec.op = "flags" /\ dec.state = "return"
    /\ dec.np0 = 1 /\ Len(dec.P) = 4 /\ dec.offset = 1
    /\ InRange(dec.d, 1, 3) /\ dec.d[2] = 9 /\ dec.d[3] = 1 /\ dec.d[4] = 0
    /\ FlagsFrom(dec.out.Point, 1) = <<9, 9, 0>>
    /\ dec.out.offset = 4

---------------------------------------------------------------------------
(* The coordinate decoder: claim C9, under SpecCoords.                     *)

\* The bytes the X (axis = "X") or Y coordinate of a point with flags f takes.
CoordBytesOf(f, axis) ==
    LET short == IF axis = "X" THEN flagXShortVector ELSE flagYShortVector
        same == IF axis = "X" THEN flagThisXIsSame ELSE flagThisYIsSame
    IN  IF HasBit(f, short) THEN 1 ELSE IF HasBit(f, same) THEN 0 ELSE 2

\* The delta of a point with flags f whose bytes are at off: + or - the byte
\* for a short vector, 0 for same-as-previous, else the signed 16-bit value.
DeltaOf(f, axis, d, off) ==
    LET short == IF axis = "X" THEN flagXShortVector ELSE flagYShortVector
        positive == IF axis = "X" THEN flagPositiveXShortVector ELSE flagPositiveYShortVector
    IN  IF HasBit(f, short)
        THEN IF ~InRange(d, off, 1) THEN 0
             ELSE IF HasBit(f, positive) THEN d[off + 1] ELSE -d[off + 1]
        ELSE IF HasBit(f, positive) THEN 0
        ELSE IF ~InRange(d, off, 2) THEN 0
        ELSE Int16(u16(d, off))

RECURSIVE StreamBytes(_, _, _)
\* The bytes the first n of the flags fl take in the stream of an axis.
StreamBytes(fl, axis, n) ==
    IF n = 0 THEN 0 ELSE StreamBytes(fl, axis, n - 1) + CoordBytesOf(fl[n], axis)

RECURSIVE DeltaSum(_, _, _, _, _)
\* The sum, in unbounded integers, of the deltas of the first n points of an
\* axis whose stream starts at offset base.
DeltaSum(fl, axis, d, base, n) ==
    IF n = 0 THEN 0
    ELSE DeltaSum(fl, axis, d, base, n - 1)
           + DeltaOf(fl[n], axis, d, base + StreamBytes(fl, axis, n - 1))

\* C9: when decodeCoords returns, the X stream lies before the Y stream, each
\* coordinate of a point of [np0, np) is the sum of the deltas up to that point
\* (from 0 for this glyph) taken modulo 2^16 as a signed 16-bit value, the
\* offset returned is the start offset plus the bytes of both streams, and the
\* flags and the earlier points have not changed.
C9_CoordsAreWrappedSums ==
    dec.op = "coords" /\ dec.state = "return" =>
        LET fl == FlagsFrom(dec.P, dec.np0)
            n == Len(fl)
            ybase == dec.offset + StreamBytes(fl, "X", n)
        IN  /\ Len(dec.out.Point) = Len(dec.P)
            /\ SamePrefix(dec.P, dec.out.Point, dec.np0)
            /\ \A k \in 1..n :
                 /\ dec.out.Point[dec.np0 + k].X = Int16(DeltaSum(fl, "X", dec.d, dec.offset, k))
                 /\ dec.out.Point[dec.np0 + k].Y = Int16(DeltaSum(fl, "Y", dec.d, ybase, k))
                 /\ dec.out.Point[dec.np0 + k].Flags = fl[k]
            /\ dec.out.offset = ybase + StreamBytes(fl, "Y", n)

\* Two points decoded after one earlier point: a full delta of -32768 and
\* then a short delta of -255, which wraps the X coordinate around to 32513.
C9_Witness ==
    /\ dec.op = "coords" /\ dec.state = "return"
    /\ dec.np0 = 1 /\ dec.offset = 0 /\ dec.d = <<128, 0, 255, 255>>
    /\ FlagsFrom(dec.P, 1) = <<32, 6>>
    /\ dec.out.Point[2].X = -32768 /\ dec.out.Point[3].X = 32513
    /\ dec.out.Point[2].Y = 0 /\ dec.out.Point[3].Y = -255
    /\ dec.out.offset = 4

---------------------------------------------------------------------------
(* Load: claims C1, C2, C3, C6, C7, C8 and C10, under Spec.                *)

\* Whether Load has returned (nil or an error) rather than panicked.
Returned == m.pc = "done" /\ m.outcome # "panic"

\* Whether s is strictly increasing.
StrictlyIncreasing(s) == \A k \in 1..(Len(s) - 1) : s[k] < s[k + 1]

\* Whether s is the start of t.
IsPrefix(s, t) == Len(s) <= Len(t) /\ \A k \in 1..Len(s) : s[k] = t[k]

\* C1: after every Load that returns nil, End is strictly increasing and its
\* last element is len(Point) (and there are no points without a contour), so
\* that the slices Point[End[i-1]:End[i]] partition Point.
C1_EndPartitionsPoint ==
    m.pc = "done" /\ m.outcome = "nil" =>
        /\ StrictlyIncreasing(m.g.End)
        /\ \A k \in 1..Len(m.g.End) : m.g.End[k] > 0
        /\ IF m.g.End = <<>> THEN m.g.Point = <<>>
           ELSE m.g.End[Len(m.g.End)] = Len(m.g.Point)

\* C2: compound nesting is capped at 4 levels.  load is never entered deeper
\* than level 5 (recursion 4), where it stops; a Load during which the cap was
\* hit returns the unsupported-format error of the cap, and one that stayed
\* within 4 levels and met no other error returns nil.
C2_NestingCappedAtFour ==
    /\ m.pc = "load" => m.call.recursion <= MaxRecursion
    /\ Len(m.stack) <= MaxRecursion
    /\ Returned /\ ErrRecursion \in m.errs => m.outcome = ErrRecursion
    /\ Returned /\ m.errs = {} => m.outcome = "nil"

\* C3: when a call of the hinter's init or run has returned an error, for the
\* top-level glyph or for a component at any depth, Load returns that error
\* (and so never nil).
C3_HinterErrorAbortsLoad ==
    Returned =>
        /\ "hinter: init" \in m.errs => m.outcome = "hinter: init"
        /\ "hinter: run" \in m.errs => m.outcome = "hinter: run"

\* The numberOfContours of glyph i of the font of the Load in progress.
ContoursOf(i) ==
    Int16(u16(GlyfSlice(Fonts[m.font], LocaRange(Fonts[m.font], i)).d, 0))

\* C8: a glyph with numberOfContours -1 goes to the compound composer (every
\* frame of loadCompound is for such a glyph), and a glyph with any other
\* negative numberOfContours, at the top level or as a component, makes Load
\* return a non-nil error.
C8_NegativeContoursAreFatal ==
    /\ \A k \in 1..Len(m.stack) : ContoursOf(m.stack[k].glyph) = -1
    /\ Returned /\ ErrNegative \in m.errs => m.outcome # "nil"

\* What a caller sees of a Load once it is over: its error and, when it
\* returned, the bounds, the points and the contour ends.
Result(mm) ==
    IF mm.outcome = "panic" THEN [outcome |-> "panic"]
    ELSE [outcome |-> mm.outcome, B |-> mm.g.B, Point |-> mm.g.Point, End |-> mm.g.End]

\* C7: the result of a Load depends only on its arguments: on a GlyphBuf that
\* has served earlier Loads it is the result of the same Load on a new GlyphBuf.
C7_ResultIndependentOfHistory ==
    m.pc = "done" =>
        Result(m) = Result(Run(LoadStart(Idle, m.font, m.scale, m.i, m.h)))

\* C10: a call of load for a component that returns (a simple glyph, the
\* capacity of End and of Point exceeded or not) has only appended: the contour
\* ends and the points that were there before the call are as they were.
C10_ComponentLoadOnlyAppends ==
    [][m.pc = "load" /\ m.call.recursion > 0 /\ m'.pc = "ret" =>
         IsPrefix(m.g.End, m'.g.End) /\ IsPrefix(m.g.Point, m'.g.Point)]_vars

RECURSIVE BoundsOfLoad(_, _, _, _)
RECURSIVE BoundsOfRecords(_, _, _, _, _)

\* The bounds that load of glyph i at the given recursion leaves in B, which
\* held prev before: prev, when load returns before it reads a header (past
\* the recursion cap, or an empty glyph); the box of the header, for a simple
\* glyph; for a compound glyph, what its component records make of the box.
BoundsOfLoad(f, i, recursion, prev) ==
    LET gl == GlyfSlice(f, LocaRange(f, i))
    IN  IF recursion >= MaxRecursion \/ LocaRange(f, i).panic \/ gl.panic \/ Len(gl.d) < 10
        THEN prev
        ELSE LET box == [XMin |-> Int16(u16(gl.d, 2)), YMin |-> Int16(u16(gl.d, 4)),
                         XMax |-> Int16(u16(gl.d, 6)), YMax |-> Int16(u16(gl.d, 8))]
             IN  IF Int16(u16(gl.d, 0)) = -1 THEN BoundsOfRecords(f, gl.d, 10, recursion, box)
                 ELSE box

\* The bounds that the component records of d from off on leave, from b: a
\* record with flagUseMyMetrics replaces them by its component's, any other
\* record leaves them; an unsupported record ends the glyph.
BoundsOfRecords(f, d, off, recursion, b) ==
    IF ~InRange(d, off, 6) THEN b
    ELSE LET flags == u16(d, off)
             b1 == IF HasBit(flags, flagUseMyMetrics)
                   THEN BoundsOfLoad(f, u16(d, off + 2), recursion + 1, b) ELSE b
         IN  IF ~HasBit(flags, flagArgsAreXYValues) \/ HasBit(flags, flagWeHaveAScale)
                \/ HasBit(flags, flagWeHaveAnXAndYScale) \/ HasBit(flags, flagWeHaveATwoByTwo)
             THEN b
             ELSE IF HasBit(flags, flagMoreComponents)
             THEN BoundsOfRecords(f, d, off + (IF HasBit(flags, flagArg1And2AreWords) THEN 8 ELSE 6),
                                  recursion, b1)
             ELSE b1

====
